---- MODULE Spec2Model ----
(***************************************************************************)
(* Model of the cache synchroniser (update_all_caches.py,                  *)
(* update_cache.py) and of the leaderboard table assembly                  *)
(* (streamlit_app.py, render_database_page).                               *)
(*                                                                         *)
(* A cached record is represented by its "index" field: the other fields   *)
(* of an entry (name, parent, test, train, score, timestamp) are copied    *)
(* from the response and play no part in the synchroniser's control flow.  *)
(* The "last_update" key of the cache is a timestamp and is left out.      *)
(***************************************************************************)
EXTENDS Integers, Sequences, FiniteSets, TLC

(* Largest total the remote /stats endpoint reports in the model. *)
MaxRemote == 3

(* DATABASES, in the order of its keys. *)
DBOrder == <<"db1", "db2">>

DBKeys == {DBOrder[k] : k \in 1..Len(DBOrder)}

(* Updater processes that may exist at once. *)
Procs == {1, 2}

VARIABLES
    file,      \* cache file of each database, as it is on disk
    remote,    \* total_records the remote source of each database has
    proc,      \* each updater process: position and local variables
    skipped,   \* per database: indices skipped by sweeps that were saved
    intr,      \* per database: last interrupted sweep (k = 0: none)
    overlap,   \* two update_database calls were in progress at once
    runs,      \* invocations of main so far (counted where they are bounded)
    page,      \* the leaderboard page: cached results, sidebar options, table
    call       \* one call of a text function of the page: argument and result

vars == <<file, remote, proc, skipped, intr, overlap, runs, page, call>>

----------------------------------------------------------------------------
(* The cache file.  json.dump writes the text front to back through a      *)
(* buffered file object: the front block holds "total_records_at_last_run" *)
(* (hdr), the rest holds "results" and the closing brace (body, closed).   *)
(* ext is the length of the longest body written since the file was last   *)
(* truncated: bytes beyond a shorter body that is written later stay.      *)

NoFile == [exists |-> FALSE, hdr |-> -1, body |-> <<>>, closed |-> FALSE, ext |-> 0]

Truncated == [exists |-> TRUE, hdr |-> -1, body |-> <<>>, closed |-> FALSE, ext |-> 0]

DefaultCache == [total_records_at_last_run |-> 0, results |-> <<>>]

(* json.load succeeds on a complete JSON text only. *)
Readable(f) ==
    f.exists /\ f.hdr >= 0 /\ f.closed /\ f.ext = Len(f.body)

(* A load that keeps the mark and forgets the results. *)
load_cache_mark_only(f) ==
    IF Readable(f)
    THEN [total_records_at_last_run |-> f.hdr, results |-> <<>>]
    ELSE DefaultCache

load_cache(f) ==
    IF Readable(f)
    THEN [total_records_at_last_run |-> f.hdr, results |-> f.body]
    ELSE DefaultCache

Max(a, b) == IF a >= b THEN a ELSE b

Range(s) == {s[k] : k \in 1..Len(s)}

----------------------------------------------------------------------------
NoIntr == [k |-> 0, pre |-> NoFile, n |-> 0]

(* An updater process.  pc = "idle": no process; otherwise the position in *)
(* main / update_database.                                                 *)

IdleProc ==
    [pc |-> "idle", todo |-> <<>>, db |-> "db1",
     cache |-> DefaultCache, current_total |-> 0, i |-> 0, results |-> <<>>,
     ret |-> "none", msg |-> "none",
     success_count |-> 0, total_count |-> 0, exit |-> "none",
     \* history of the current update_database call
     fetched |-> <<>>, skip |-> {}, pre |-> NoFile, pre_intr |-> NoIntr,
     pre_skipped |-> {}, wrote |-> FALSE, io_error |-> FALSE,
     \* history of the current run of main: --db, and the files of the
     \* databases it does not select as they were when it started
     db_arg |-> "none", others |-> [d \in DBKeys |-> NoFile]]

Running(p) == proc[p].pc \notin {"idle"}

InCall(p) == proc[p].pc \in {"count", "fetch", "open", "write_hdr", "write_body"}

Others(p) == \E q \in Procs \ {p} : InCall(q)

(* main, lines 118-142: --force removes every cache file, then the list of *)
(* databases to update is chosen from --db.                                *)
MainStart(p, db_arg, force) ==
    /\ proc[p].pc = "idle"
    /\ file' = IF force THEN [d \in DBKeys |-> NoFile] ELSE file
    /\ skipped' = IF force THEN [d \in DBKeys |-> {}] ELSE skipped
    /\ intr' = IF force THEN [d \in DBKeys |-> NoIntr] ELSE intr
    /\ proc' = [proc EXCEPT ![p] =
                  [IdleProc EXCEPT !.pc = "load",
                                   !.todo = IF db_arg = "all" THEN DBOrder ELSE <<db_arg>>,
                                   !.db_arg = db_arg,
                                   !.others = [d \in DBKeys |->
                                                 IF db_arg \in {"all", d} THEN NoFile
                                                 ELSE file[d]]]]
    /\ UNCHANGED <<remote, overlap, page, call>>

(* update_database, lines 62-69 (and main, line 145). *)
LoadCache(p) ==
    /\ proc[p].pc = "load"
    /\ LET db == Head(proc[p].todo) IN
       proc' = [proc EXCEPT ![p] =
                  [@ EXCEPT !.pc = "count", !.db = db,
                            !.cache = load_cache(file[db]),
                            !.current_total = 0, !.i = 0, !.results = <<>>,
                            !.ret = "none", !.msg = "none",
                            !.total_count = @ + 1,
                            !.fetched = <<>>, !.skip = {}, !.pre = file[db],
                            !.pre_intr = intr[db], !.pre_skipped = skipped[db],
                            !.wrote = FALSE, !.io_error = FALSE]]
    /\ overlap' = (overlap \/ Others(p))
    /\ UNCHANGED <<file, remote, skipped, intr, runs, page, call>>

(* The return of update_database into main's loop, lines 144-156. *)
Return(f, value, msg) ==
    [f EXCEPT !.ret = IF value THEN "True" ELSE "False", !.msg = msg,
              !.success_count = IF value THEN @ + 1 ELSE @,
              !.todo = Tail(@),
              !.pc = IF Tail(f.todo) = <<>> THEN "idle" ELSE "load",
              !.exit = IF Tail(f.todo) = <<>> THEN "ok" ELSE "none"]

(* get_total_records, lines 42-49: 0 on an exception or a non-200 status. *)
get_total_records(db, resp) == IF resp = "ok" THEN remote[db] ELSE 0

(* Mutant: the sweep starts at the mark itself. *)
SweepStartAtMark(last_total) == last_total

SweepStart(last_total) == last_total + 1

(* Mutant: a count of 0 is not told apart from any other count. *)
GetTotalNoZeroCheck(p, resp) ==
    /\ proc[p].pc = "count"
    /\ LET f == proc[p]
           current_total == get_total_records(f.db, resp)
           last_total == f.cache.total_records_at_last_run
           g == [f EXCEPT !.current_total = current_total]
       IN proc' = [proc EXCEPT ![p] =
                     IF current_total <= last_total THEN Return(g, TRUE, "no_new_data")
                     ELSE [g EXCEPT !.pc = "fetch", !.i = SweepStart(last_total),
                                    !.results = f.cache.results]]
    /\ UNCHANGED <<file, remote, skipped, intr, overlap, runs, page, call>>

(* Mutant: an unchanged count is swept (over no index) and saved again. *)
GetTotalStrict(p, resp) ==
    /\ proc[p].pc = "count"
    /\ LET f == proc[p]
           current_total == get_total_records(f.db, resp)
           last_total == f.cache.total_records_at_last_run
           g == [f EXCEPT !.current_total = current_total]
       IN proc' = [proc EXCEPT ![p] =
                     IF current_total = 0 THEN Return(g, FALSE, "unreachable")
                     ELSE IF current_total < last_total THEN Return(g, TRUE, "no_new_data")
                     ELSE [g EXCEPT !.pc = IF SweepStart(last_total) > current_total
                                           THEN "open" ELSE "fetch",
                                    !.i = SweepStart(last_total),
                                    !.results = f.cache.results]]
    /\ UNCHANGED <<file, remote, skipped, intr, overlap, runs, page, call>>

(* update_database, lines 70-86. *)
GetTotal(p, resp) ==
    /\ proc[p].pc = "count"
    /\ LET f == proc[p]
           current_total == get_total_records(f.db, resp)
           last_total == f.cache.total_records_at_last_run
           g == [f EXCEPT !.current_total = current_total]
       IN proc' = [proc EXCEPT ![p] =
                     IF current_total = 0 THEN Return(g, FALSE, "unreachable")
                     ELSE IF current_total <= last_total THEN Return(g, TRUE, "no_new_data")
                     ELSE [g EXCEPT !.pc = "fetch", !.i = SweepStart(last_total),
                                    !.results = f.cache.results]]
    /\ UNCHANGED <<file, remote, skipped, intr, overlap, runs, page, call>>

(* data and 'result' in data, line 91. *)
Usable(out) == out = "ok"

(* Mutant: the sweep stops at the first unusable response. *)
FetchElementBreak(p, out) ==
    /\ proc[p].pc = "fetch"
    /\ LET f == proc[p] IN
       proc' = [proc EXCEPT ![p] =
                  [f EXCEPT !.fetched = Append(@, f.i),
                            !.results = IF Usable(out) THEN Append(@, f.i) ELSE @,
                            !.skip = IF Usable(out) THEN @ ELSE @ \cup {f.i},
                            !.i = f.i + 1,
                            !.pc = IF f.i + 1 > f.current_total \/ ~Usable(out)
                                   THEN "open" ELSE "fetch"]]
    /\ UNCHANGED <<file, remote, skipped, intr, overlap, runs, page, call>>

(* Mutant: every usable record is written to the cache file at once. *)
FetchElementCommit(p, out) ==
    /\ proc[p].pc = "fetch"
    /\ LET f == proc[p]
           r == IF Usable(out) THEN Append(f.results, f.i) ELSE f.results
       IN /\ proc' = [proc EXCEPT ![p] =
                        [f EXCEPT !.fetched = Append(@, f.i),
                                  !.results = r,
                                  !.skip = IF Usable(out) THEN @ ELSE @ \cup {f.i},
                                  !.i = f.i + 1,
                                  !.pc = IF f.i + 1 > f.current_total THEN "open" ELSE "fetch"]]
          /\ file' = [file EXCEPT ![f.db] =
                        [exists |-> TRUE, hdr |-> f.i, body |-> r, closed |-> TRUE,
                         ext |-> Len(r)]]
    /\ UNCHANGED <<remote, skipped, intr, overlap, runs, page, call>>

(* One iteration of the loop, lines 87-105. *)
FetchElement(p, out) ==
    /\ proc[p].pc = "fetch"
    /\ LET f == proc[p] IN
       proc' = [proc EXCEPT ![p] =
                  [f EXCEPT !.fetched = Append(@, f.i),
                            !.results = IF Usable(out) THEN Append(@, f.i) ELSE @,
                            !.skip = IF Usable(out) THEN @ ELSE @ \cup {f.i},
                            !.i = f.i + 1,
                            !.pc = IF f.i + 1 > f.current_total THEN "open" ELSE "fetch"]]
    /\ UNCHANGED <<file, remote, skipped, intr, overlap, runs, page, call>>

(* An exception that leaves update_database: nothing catches it, the      *)
(* process ends with a traceback.                                          *)
Uncaught(f) ==
    [f EXCEPT !.pc = "idle", !.exit = "crashed", !.io_error = TRUE]

(* save_cache, line 38: open(cache_file, 'w') truncates the file, or       *)
(* raises and leaves it alone.                                             *)
SaveOpen(p, ok) ==
    /\ proc[p].pc = "open"
    /\ LET f == proc[p] IN
       IF ok
       THEN /\ file' = [file EXCEPT ![f.db] = Truncated]
            /\ proc' = [proc EXCEPT ![p] = [f EXCEPT !.pc = "write_hdr", !.wrote = TRUE]]
            /\ intr' = [intr EXCEPT ![f.db] = NoIntr]
       ELSE /\ proc' = [proc EXCEPT ![p] = Uncaught(f)]
            /\ UNCHANGED <<file, intr>>
    /\ UNCHANGED <<remote, skipped, overlap, runs, page, call>>

(* Mutant: the mark saved is the number of records held. *)
NewMarkLen(f) == Len(f.results)

(* cache.update, lines 108-112. *)
NewMark(f) == f.current_total

(* save_cache, line 39: the front of the text reaches the file. *)
SaveWriteHdr(p) ==
    /\ proc[p].pc = "write_hdr"
    /\ LET f == proc[p] IN
       /\ file' = [file EXCEPT ![f.db] = [@ EXCEPT !.exists = TRUE, !.hdr = NewMark(f)]]
       /\ proc' = [proc EXCEPT ![p] = [f EXCEPT !.pc = "write_body"]]
    /\ UNCHANGED <<remote, skipped, intr, overlap, runs, page, call>>

(* save_cache, lines 39-40, and the return at lines 115-116: the rest of   *)
(* the text reaches the file and the file is closed, or the write raises.  *)
SaveWriteBody(p, ok) ==
    /\ proc[p].pc = "write_body"
    /\ LET f == proc[p] IN
       IF ok
       THEN /\ file' = [file EXCEPT ![f.db] =
                          [@ EXCEPT !.exists = TRUE, !.body = f.results, !.closed = TRUE,
                                    !.ext = Max(@, Len(f.results))]]
            /\ proc' = [proc EXCEPT ![p] = Return(f, TRUE, "saved")]
            /\ skipped' = [skipped EXCEPT ![f.db] = @ \cup f.skip]
       ELSE /\ proc' = [proc EXCEPT ![p] = Uncaught(f)]
            /\ UNCHANGED <<file, skipped>>
    /\ UNCHANGED <<remote, intr, overlap, runs, page, call>>

(* The process is stopped from outside (KeyboardInterrupt, kill). *)
Kill(p) ==
    /\ Running(p)
    /\ LET f == proc[p] IN
       /\ proc' = [proc EXCEPT ![p] = [f EXCEPT !.pc = "idle", !.exit = "killed"]]
       /\ intr' = IF f.pc \in {"fetch", "open"} /\ f.fetched # <<>>
                  THEN [intr EXCEPT ![f.db] =
                          [k |-> f.fetched[Len(f.fetched)], pre |-> f.pre, n |-> f.current_total]]
                  ELSE intr
    /\ UNCHANGED <<file, remote, skipped, overlap, runs, page, call>>

(* The remote source gets records (or loses them). *)
RemoteChange(db, n) ==
    /\ n # remote[db]
    /\ remote' = [remote EXCEPT ![db] = n]
    /\ UNCHANGED <<file, proc, skipped, intr, overlap, runs, page, call>>

----------------------------------------------------------------------------
----------------------------------------------------------------------------
(* The leaderboard page, render_database_page.  A cached result is        *)
(* modelled by its name, its score and whether its test text gives all 12  *)
(* benchmark columns; its index is its position in the cache.  A missing   *)
(* number (None, np.nan) is NaN.                                           *)

MaxRecords == 3

NaN == -1

ScoreValues == {NaN, 1, 2}

(* Names a cached result may carry; "" stands for a missing or empty name. *)
Names == {"", "Delta_Net", "delta_net", "gated_delta_net", "m1", "m2"}

(* str.lower() on the names of the model. *)
Lower(name) == IF name = "Delta_Net" THEN "delta_net" ELSE name

(* The order of Python's string comparison on the names of the model. *)
NameRank(name) ==
    CASE name = "" -> 0
      [] name = "Delta_Net" -> 1
      [] name = "delta_net" -> 2
      [] name = "gated_delta_net" -> 3
      [] name = "m1" -> 4
      [] OTHER -> 5

(* Losses at step 2000, in thousandths: none, below the SOTA row's, equal  *)
(* to it.                                                                  *)
LossValues == {NaN, 4000, 4377}

RawRecords == [name : Names, score : ScoreValues, loss : LossValues, complete : BOOLEAN]

(* Lines 383-429: the row of one result. *)
Row(result, index) ==
    [Index |-> index, name |-> result.name, Score |-> result.score,
     Loss |-> result.loss, complete |-> result.complete]

(* Lines 438-456: the hard-coded SOTA row; its Index cell is 'SOTA' (0 in  *)
(* the model), it has no Score, the Loss 4.377 and all 12 benchmark values. *)
gated_delta_net_row ==
    [Index |-> 0, name |-> "gated_delta_net", Score |-> NaN, Loss |-> 4377,
     complete |-> TRUE]

NoRow == [Index |-> -1, name |-> "", Score |-> NaN, Loss |-> NaN, complete |-> FALSE]

(* Lines 375-435: the loop over the results, from result k on. *)
RECURSIVE CollectRows(_, _, _)
CollectRows(results, k, acc) ==
    IF k > Len(results) THEN acc
    ELSE LET result == results[k] IN
         IF result.name = "" THEN CollectRows(results, k + 1, acc)
         ELSE IF Lower(result.name) = "delta_net"
         THEN CollectRows(results, k + 1, [acc EXCEPT !.delta_net_row = Row(result, k)])
         ELSE CollectRows(results, k + 1,
                          [acc EXCEPT !.table_data = Append(@, Row(result, k))])

(* Lines 458-470: SOTA row, then the delta_net row if any, then the rest. *)
FinalTableData(results) ==
    LET acc == CollectRows(results, 1, [table_data |-> <<>>, delta_net_row |-> NoRow])
    IN <<gated_delta_net_row>>
       \o (IF acc.delta_net_row # NoRow THEN <<acc.delta_net_row>> ELSE <<>>)
       \o acc.table_data

(* The numeric values of a column (pd.to_numeric, NaN dropped). *)
Scores(df) == {df[k].Score : k \in 1..Len(df)} \ {NaN}

(* Lines 573-589: the values the score slider can take; off when the      *)
(* Score column has no number.                                             *)
ScoreRanges(df) ==
    IF Scores(df) = {} THEN {[on |-> FALSE, lo |-> 0, hi |-> 0]}
    ELSE {[on |-> TRUE, lo |-> r[1], hi |-> r[2]] :
            r \in {q \in Scores(df) \X Scores(df) : q[1] <= q[2]}}

(* Lines 599-601. *)
IsGated(row) == Lower(row.name) = "gated_delta_net"

IsDelta(row) == Lower(row.name) = "delta_net"

IsOther(row) == ~IsGated(row) /\ ~IsDelta(row)

(* Lines 603-614: the two filters, on the other rows only. *)
Filtered(other_rows, opts) ==
    LET Complete(row) == ~opts.show_only_complete \/ row.complete
        InRange(row) ==
            ~opts.score_range.on
            \/ (row.Score # NaN /\ row.Score >= opts.score_range.lo
                                /\ row.Score <= opts.score_range.hi)
        Pass(row) == Complete(row) /\ InRange(row)
    IN SelectSeq(other_rows, Pass)

(* Row a may stand before row b after sort_values: by the key in the       *)
(* chosen direction, missing values last.                                  *)
MayPrecede(a, b, opts) ==
    IF opts.sort_by = "Score"
    THEN \/ b.Score = NaN
         \/ /\ a.Score # NaN
            /\ IF opts.sort_ascending THEN a.Score <= b.Score ELSE a.Score >= b.Score
    ELSE IF opts.sort_ascending
         THEN NameRank(a.name) <= NameRank(b.name)
         ELSE NameRank(a.name) >= NameRank(b.name)

Orderings(n) ==
    {f \in [1..n -> 1..n] : \A a, b \in 1..n : a # b => f[a] # f[b]}

(* Lines 618-623: the orders sort_values may give (the default sort is not *)
(* stable, so rows with equal keys come in any order).                     *)
Sorted(rows, opts) ==
    {[k \in 1..Len(rows) |-> rows[f[k]]] :
        f \in {g \in Orderings(Len(rows)) :
                 \A a, b \in 1..Len(rows) :
                     a < b => MayPrecede(rows[g[a]], rows[g[b]], opts)}}

(* Lines 596-626: the tables the page may show. *)
DisplayFrames(df, opts) ==
    LET gated_row == SelectSeq(df, IsGated)
        delta_row == SelectSeq(df, IsDelta)
        other_rows == Filtered(SelectSeq(df, IsOther), opts)
    IN {gated_row \o delta_row \o o : o \in Sorted(other_rows, opts)}

NoOpts ==
    [sort_by |-> "Score", sort_ascending |-> FALSE, show_only_complete |-> FALSE,
     score_range |-> [on |-> FALSE, lo |-> 0, hi |-> 0]]

NoPage ==
    [stage |-> "off", results |-> <<>>, opts |-> NoOpts, df |-> <<>>, display_df |-> <<>>,
     summary |-> <<>>]

(* The columns of the summary that the rows of the model have: Score       *)
(* stands for the columns where higher is better (line 314), Loss is the   *)
(* one where lower is better (line 310).                                   *)
all_columns == <<"Score", "Loss">>

(* numeric_series.dropna(): the positions with a number in column col. *)
Valid(df, col) == {k \in 1..Len(df) : df[k][col] # NaN}

(* A position of the greatest value that is not the first one, if any. *)
idxmax_last(df, col) ==
    CHOOSE k \in Valid(df, col) :
        /\ \A j \in Valid(df, col) : df[k][col] >= df[j][col]
        /\ \A j \in Valid(df, col) : df[j][col] = df[k][col] => j <= k

(* Series.idxmax(): the first position of the greatest value. *)
idxmax(df, col) ==
    CHOOSE k \in Valid(df, col) :
        /\ \A j \in Valid(df, col) : df[k][col] >= df[j][col]
        /\ \A j \in Valid(df, col) : df[j][col] = df[k][col] => k <= j

(* Series.idxmin(): the first position of the least value. *)
idxmin(df, col) ==
    CHOOSE k \in Valid(df, col) :
        /\ \A j \in Valid(df, col) : df[k][col] <= df[j][col]
        /\ \A j \in Valid(df, col) : df[j][col] = df[k][col] => k <= j

(* Lines 294-336: one entry per column with a number, in column order. *)
create_performance_summary(df) ==
    LET Entry(col) ==
            IF Valid(df, col) = {} THEN <<>>
            ELSE LET best_idx == IF col = "Loss" THEN idxmin(df, col) ELSE idxmax(df, col)
                 IN <<[col |-> col, best_value |-> df[best_idx][col],
                       best_model |-> df[best_idx].name,
                       direction |-> IF col = "Loss" THEN "down" ELSE "up"]>>
        RECURSIVE Entries(_)
        Entries(n) == IF n = 0 THEN <<>> ELSE Entries(n - 1) \o Entry(all_columns[n])
    IN Entries(Len(all_columns))

(* Sequences over S of length at most n. *)
SeqUpTo(S, n) == UNION {[1..k -> S] : k \in 0..n}

(* render_database_page, lines 338-714, with the sidebar's widgets as      *)
(* inputs: the table shown and the summary of the whole table.  Without    *)
(* results the page shows an error and no table.                           *)
RenderDatabasePage(sort_by, sort_ascending, show_only_complete) ==
    /\ page.stage = "loaded"
    /\ IF page.results = <<>>
       THEN page' = [page EXCEPT !.stage = "no_data"]
       ELSE LET df == FinalTableData(page.results) IN
            \E score_range \in ScoreRanges(df) :
                LET opts == [sort_by |-> sort_by, sort_ascending |-> sort_ascending,
                             show_only_complete |-> show_only_complete,
                             score_range |-> score_range]
                IN \E d \in DisplayFrames(df, opts) :
                       page' = [page EXCEPT !.stage = "rendered", !.opts = opts,
                                            !.df = df, !.display_df = d,
                                            !.summary = create_performance_summary(df)]
    /\ UNCHANGED <<file, remote, proc, skipped, intr, overlap, runs, call>>

----------------------------------------------------------------------------
(* The text functions of the page: normalize_column_name,                  *)
(* parse_test_results and get_loss_at_step_2000.  A Python string is the   *)
(* sequence of its characters.                                             *)

LowerCase ==
    <<"a", "b", "c", "d", "e", "f", "g", "h", "i", "j", "k", "l", "m",
      "n", "o", "p", "q", "r", "s", "t", "u", "v", "w", "x", "y", "z">>

UpperCase ==
    <<"A", "B", "C", "D", "E", "F", "G", "H", "I", "J", "K", "L", "M",
      "N", "O", "P", "Q", "R", "S", "T", "U", "V", "W", "X", "Y", "Z">>

Digits == <<"0", "1", "2", "3", "4", "5", "6", "7", "8", "9">>

(* The characters str.strip() removes, among those of the model. *)
Whitespace == {" ", "\t", "\n", "\r"}

(* The position of character c in letters, 0 when it is not there. *)
Pos(c, letters) ==
    IF \E k \in 1..Len(letters) : letters[k] = c
    THEN CHOOSE k \in 1..Len(letters) : letters[k] = c
    ELSE 0

IsCased(c) == Pos(c, LowerCase) > 0 \/ Pos(c, UpperCase) > 0

char_lower(c) == IF Pos(c, UpperCase) > 0 THEN LowerCase[Pos(c, UpperCase)] ELSE c

char_upper(c) == IF Pos(c, LowerCase) > 0 THEN UpperCase[Pos(c, LowerCase)] ELSE c

(* str.lower() *)
str_lower(s) == [k \in 1..Len(s) |-> char_lower(s[k])]

(* str.upper() *)
str_upper(s) == [k \in 1..Len(s) |-> char_upper(s[k])]

(* str.title(): a cased character is upper case when the character before  *)
(* it is not cased, lower case otherwise.                                  *)
str_title(s) ==
    [k \in 1..Len(s) |->
        IF k > 1 /\ IsCased(s[k - 1]) THEN char_lower(s[k]) ELSE char_upper(s[k])]

(* str.strip() *)
str_strip(s) ==
    LET keep == {k \in 1..Len(s) : s[k] \notin Whitespace} IN
    IF keep = {} THEN <<>>
    ELSE SubSeq(s, CHOOSE a \in keep : \A k \in keep : a <= k,
                   CHOOSE b \in keep : \A k \in keep : b >= k)

(* str.split(sep) for a separator of one character. *)
RECURSIVE str_split(_, _)
str_split(s, sep) ==
    LET at == {k \in 1..Len(s) : s[k] = sep} IN
    IF at = {} THEN <<s>>
    ELSE LET a == CHOOSE k \in at : \A j \in at : k <= j
         IN <<SubSeq(s, 1, a - 1)>> \o str_split(SubSeq(s, a + 1, Len(s)), sep)

(* s.replace('\r\n', '\n') *)
RECURSIVE replace_crlf(_)
replace_crlf(s) ==
    IF s = <<>> THEN <<>>
    ELSE IF Len(s) >= 2 /\ s[1] = "\r" /\ s[2] = "\n"
    THEN <<"\n">> \o replace_crlf(SubSeq(s, 3, Len(s)))
    ELSE <<s[1]>> \o replace_crlf(Tail(s))

(* s.replace('\r', '\n') *)
replace_cr(s) == [k \in 1..Len(s) |-> IF s[k] = "\r" THEN "\n" ELSE s[k]]

(* Lines 232-233 and 267-268: the lines of a text. *)
SplitLines(text) == str_split(str_strip(replace_cr(replace_crlf(text))), "\n")

(* Lines 238-239: the stripped cells of a line. *)
Cells(line) ==
    LET parts == str_split(line, ",") IN [k \in 1..Len(parts) |-> str_strip(parts[k])]

(* Lines 202-221: column_mapping, as pairs <<key, value>>. *)
column_mapping ==
    {
     <<<<"a", "r", "c", "_", "c", "h", "a", "l", "l", "e", "n", "g", "e">>,
       <<"A", "R", "C", " ", "C", "h", "a", "l", "l", "e", "n", "g", "e">>>>,
     <<<<"a", "r", "c", " ", "c", "h", "a", "l", "l", "e", "n", "g", "e">>,
       <<"A", "R", "C", " ", "C", "h", "a", "l", "l", "e", "n", "g", "e">>>>,
     <<<<"a", "r", "c", "_", "e", "a", "s", "y">>,
       <<"A", "R", "C", " ", "E", "a", "s", "y">>>>,
     <<<<"a", "r", "c", " ", "e", "a", "s", "y">>,
       <<"A", "R", "C", " ", "E", "a", "s", "y">>>>,
     <<<<"b", "o", "o", "l", "q">>,
       <<"B", "o", "o", "l", "Q">>>>,
     <<<<"f", "d", "a">>,
       <<"F", "D", "A">>>>,
     <<<<"h", "e", "l", "l", "a", "s", "w", "a", "g">>,
       <<"H", "e", "l", "l", "a", "S", "w", "a", "g">>>>,
     <<<<"l", "a", "m", "b", "a", "d", "a", "_", "o", "p", "e", "n", "a", "i">>,
       <<"L", "A", "M", "B", "D", "A", " ", "O", "p", "e", "n", "A", "I">>>>,
     <<<<"l", "a", "m", "b", "d", "a", " ", "o", "p", "e", "n", "a", "i">>,
       <<"L", "A", "M", "B", "D", "A", " ", "O", "p", "e", "n", "A", "I">>>>,
     <<<<"o", "p", "e", "n", "b", "o", "o", "k", "q", "a">>,
       <<"O", "p", "e", "n", "B", "o", "o", "k", "Q", "A">>>>,
     <<<<"p", "i", "q", "a">>,
       <<"P", "I", "Q", "A">>>>,
     <<<<"s", "o", "c", "i", "a", "l", "_", "i", "q", "a">>,
       <<"S", "o", "c", "i", "a", "l", " ", "I", "Q", "A">>>>,
     <<<<"s", "o", "c", "i", "a", "l", " ", "i", "q", "a">>,
       <<"S", "o", "c", "i", "a", "l", " ", "I", "Q", "A">>>>,
     <<<<"s", "q", "u", "a", "d", "_", "c", "o", "m", "p", "l", "e", "t", "i", "o", "n">>,
       <<"S", "Q", "u", "A", "D", " ", "C", "o", "m", "p", "l", "e", "t", "i", "o", "n">>>>,
     <<<<"s", "q", "u", "a", "d", " ", "c", "o", "m", "p", "l", "e", "t", "i", "o", "n">>,
       <<"S", "Q", "u", "A", "D", " ", "C", "o", "m", "p", "l", "e", "t", "i", "o", "n">>>>,
     <<<<"s", "w", "d", "e">>,
       <<"S", "W", "D", "E">>>>,
     <<<<"w", "i", "n", "o", "g", "r", "a", "n", "d", "e">>,
       <<"W", "i", "n", "o", "G", "r", "a", "n", "d", "e">>>>,
     <<<<"a", "v", "e", "r", "a", "g", "e">>,
       <<"A", "v", "e", "r", "a", "g", "e">>>>
    }

(* Line 224 without lower(): the label is looked up as it is written. *)
normalize_column_name_cased(col_name) ==
    LET clean_name == str_strip(col_name) IN
    IF \E e \in column_mapping : e[1] = clean_name
    THEN (CHOOSE e \in column_mapping : e[1] = clean_name)[2]
    ELSE str_title(str_strip(col_name))

(* Lines 200-224. *)
normalize_column_name(col_name) ==
    LET clean_name == str_lower(str_strip(col_name)) IN
    IF \E e \in column_mapping : e[1] = clean_name
    THEN (CHOOSE e \in column_mapping : e[1] = clean_name)[2]
    ELSE str_title(str_strip(col_name))

(* The outcome of a call or statement: the value returned, or the          *)
(* exception that leaves it.                                               *)
Returned(v) == [raised |-> "none", value |-> v]

Raised(exc) == [raised |-> exc, value |-> <<>>]

(* The values of a parsed cell: a float, in thousandths, or the text kept. *)
Float(n) == [kind |-> "float", num |-> n, str |-> <<>>]

Str(s) == [kind |-> "str", num |-> 0, str |-> s]

None == [kind |-> "None", num |-> 0, str |-> <<>>]

EmptyMap == <<>>

IsDigits(s) == s # <<>> /\ \A k \in 1..Len(s) : Pos(s[k], Digits) > 0

RECURSIVE DigitsValue(_)
DigitsValue(s) ==
    IF s = <<>> THEN 0
    ELSE 10 * DigitsValue(SubSeq(s, 1, Len(s) - 1)) + (Pos(s[Len(s)], Digits) - 1)

Unsigned(s) == IF s # <<>> /\ s[1] \in {"+", "-"} THEN Tail(s) ELSE s

Sign(s) == IF s # <<>> /\ s[1] = "-" THEN -1 ELSE 1

(* The value of the digits after the point, in thousandths. *)
Thousandths(s) ==
    DigitsValue([k \in 1..3 |-> IF k <= Len(s) THEN s[k] ELSE "0"])

(* int(s) on a stripped string: a signed decimal numeral, ValueError       *)
(* otherwise.                                                              *)
int(s) ==
    IF IsDigits(Unsigned(s)) THEN Returned(Sign(s) * DigitsValue(Unsigned(s)))
    ELSE Raised("ValueError")

(* float(s) on a stripped string: a signed decimal numeral with at most    *)
(* one point, in thousandths; ValueError otherwise.  (The exponent, inf    *)
(* and nan forms do not occur in the texts of the model.)                  *)
float(s) ==
    LET parts == str_split(Unsigned(s), ".") IN
    IF Len(parts) = 1 /\ IsDigits(parts[1])
    THEN Returned(Sign(s) * 1000 * DigitsValue(parts[1]))
    ELSE IF /\ Len(parts) = 2
            /\ parts[1] = <<>> \/ IsDigits(parts[1])
            /\ parts[2] = <<>> \/ IsDigits(parts[2])
            /\ parts[1] # <<>> \/ parts[2] # <<>>
    THEN Returned(Sign(s) * (1000 * DigitsValue(parts[1]) + Thousandths(parts[2])))
    ELSE Raised("ValueError")

(* An assignment that keeps the entry a label already has. *)
StoreFirst(result, key, value) ==
    [k \in DOMAIN result \cup {key} |->
        IF k \in DOMAIN result THEN result[k] ELSE value]

(* Lines 253, 255: result[standard_header] = ... *)
Store(result, key, value) ==
    [k \in DOMAIN result \cup {key} |-> IF k = key THEN value ELSE result[k]]

(* Lines 245-255: the loop over zip(headers, values), from column i on     *)
(* (columns are counted from 1 here, from 0 in the code).                  *)
RECURSIVE TestColumns(_, _, _, _)
TestColumns(headers, values, i, result) ==
    IF i > Len(headers) \/ i > Len(values) THEN Returned(result)
    ELSE IF i = 1 \/ str_lower(headers[i]) \in {<<"m", "o", "d", "e", "l">>, <<>>}
    THEN TestColumns(headers, values, i + 1, result)
    ELSE LET standard_header == normalize_column_name(headers[i])
             numeric_value == float(values[i])
         IN IF numeric_value.raised = "none"
            THEN TestColumns(headers, values, i + 1,
                             Store(result, standard_header, Float(numeric_value.value)))
            ELSE IF numeric_value.raised = "ValueError"
            THEN TestColumns(headers, values, i + 1,
                             Store(result, standard_header, Str(values[i])))
            ELSE numeric_value

(* Lines 226-260. *)
parse_test_results(test_string) ==
    IF test_string = <<>> THEN Returned(EmptyMap)
    ELSE LET lines == SplitLines(test_string) IN
         IF Len(lines) < 2 THEN Returned(EmptyMap)
         ELSE LET body == TestColumns(Cells(lines[1]), Cells(lines[2]), 1, EmptyMap)
              IN IF body.raised # "none" THEN Returned(EmptyMap) ELSE body

(* One turn of the loop at lines 280-285: the loop returns a value, goes   *)
(* on, or is left by an exception.                                         *)
GoOn == [raised |-> "none", returns |-> FALSE, value |-> None]

(* The turn without the handler of line 284: a ValueError leaves the loop. *)
LossPairUncaught(step, loss) ==
    IF int(step).raised # "none" THEN [GoOn EXCEPT !.raised = int(step).raised]
    ELSE IF int(step).value # 2000 THEN GoOn
    ELSE IF float(loss).raised # "none" THEN [GoOn EXCEPT !.raised = float(loss).raised]
    ELSE [GoOn EXCEPT !.returns = TRUE, !.value = Float(float(loss).value)]

(* Lines 280-285. *)
LossPair(step, loss) ==
    IF int(step).raised = "ValueError" THEN GoOn
    ELSE IF int(step).raised # "none" THEN [GoOn EXCEPT !.raised = int(step).raised]
    ELSE IF int(step).value # 2000 THEN GoOn
    ELSE IF float(loss).raised = "ValueError" THEN GoOn
    ELSE IF float(loss).raised # "none" THEN [GoOn EXCEPT !.raised = float(loss).raised]
    ELSE [GoOn EXCEPT !.returns = TRUE, !.value = Float(float(loss).value)]

(* Lines 279-288: the loop over zip(steps, losses), from pair i on. *)
RECURSIVE LossPairs(_, _, _)
LossPairs(steps, losses, i) ==
    IF i > Len(steps) \/ i > Len(losses) THEN Returned(None)
    ELSE LET turn == LossPair(steps[i], losses[i]) IN
         IF turn.raised # "none" THEN Raised(turn.raised)
         ELSE IF turn.returns THEN Returned(turn.value)
         ELSE LossPairs(steps, losses, i + 1)

(* Lines 262-292. *)
get_loss_at_step_2000(train_string) ==
    IF train_string = <<>> THEN Returned(None)
    ELSE LET lines == SplitLines(train_string) IN
         IF Len(lines) < 2 THEN Returned(None)
         ELSE LET steps == Tail(Cells(lines[1]))
                  losses == Tail(Cells(lines[2]))
                  body == LossPairs(steps, losses, 1)
              IN IF body.raised # "none" THEN Returned(None) ELSE body

(* One call of a text function: the function, the string first given, the  *)
(* argument and outcome of the latest application, and the number of       *)
(* applications so far.                                                    *)
NoCall ==
    [fn |-> "none", first |-> <<>>, arg |-> <<>>, out |-> Returned(<<>>), calls |-> 0]

(* The label is normalized, and the result is normalized once more. *)
NormalizeColumnName ==
    /\ call.fn = "normalize_column_name"
    /\ call.calls < 2
    /\ LET col_name == IF call.calls = 0 THEN call.arg ELSE call.out.value IN
       call' = [call EXCEPT !.arg = col_name,
                            !.out = Returned(normalize_column_name(col_name)),
                            !.calls = @ + 1]
    /\ UNCHANGED <<file, remote, proc, skipped, intr, overlap, runs, page>>

ParseTestResults ==
    /\ call.fn = "parse_test_results"
    /\ call.calls = 0
    /\ call' = [call EXCEPT !.out = parse_test_results(call.arg), !.calls = 1]
    /\ UNCHANGED <<file, remote, proc, skipped, intr, overlap, runs, page>>

GetLossAtStep2000 ==
    /\ call.fn = "get_loss_at_step_2000"
    /\ call.calls = 0
    /\ call' = [call EXCEPT !.out = get_loss_at_step_2000(call.arg), !.calls = 1]
    /\ UNCHANGED <<file, remote, proc, skipped, intr, overlap, runs, page>>

InitSync ==
    /\ file = [d \in DBKeys |-> NoFile]
    /\ remote = [d \in DBKeys |-> 0]
    /\ proc = [p \in Procs |-> IdleProc]
    /\ skipped = [d \in DBKeys |-> {}]
    /\ intr = [d \in DBKeys |-> NoIntr]
    /\ overlap = FALSE
    /\ runs = 0
    /\ page = NoPage
    /\ call = NoCall

Init == InitSync

(* One updater at a time, on db1. *)
Next ==
    \/ \E force \in BOOLEAN : MainStart(1, "db1", force) /\ UNCHANGED runs
    \/ LoadCache(1)
    \/ \E resp \in {"ok", "error"} : GetTotal(1, resp)
    \/ \E out \in {"ok", "none", "no_result"} : FetchElement(1, out)
    \/ \E ok \in BOOLEAN : SaveOpen(1, ok)
    \/ SaveWriteHdr(1)
    \/ \E ok \in BOOLEAN : SaveWriteBody(1, ok)
    \/ Kill(1)
    \/ \E n \in 0..MaxRemote : RemoteChange("db1", n)

Spec == Init /\ [][Next]_vars

(* Invocations of main in the specifications that bound them. *)
MaxRuns == 2

Counted == runs < MaxRuns /\ runs' = runs + 1

(* main of update_all_caches.py with any --db and --force, one updater at  *)
(* a time, MaxRuns invocations, while the remote sources get records.      *)
NextAll ==
    \/ \E db_arg \in DBKeys \cup {"all"}, force \in BOOLEAN :
          MainStart(1, db_arg, force) /\ Counted
    \/ LoadCache(1)
    \/ \E resp \in {"ok", "error"} : GetTotal(1, resp)
    \/ \E out \in {"ok", "none", "no_result"} : FetchElement(1, out)
    \/ \E ok \in BOOLEAN : SaveOpen(1, ok)
    \/ SaveWriteHdr(1)
    \/ \E ok \in BOOLEAN : SaveWriteBody(1, ok)
    \/ Kill(1)
    \/ \E db \in DBKeys : remote[db] < MaxRemote /\ RemoteChange(db, remote[db] + 1)

SpecAll == Init /\ [][NextAll]_vars

(* The updater has not been started yet. *)
NotStarted(p) == proc[p].exit = "none"

(* Two updaters on db1, each started once, whose steps interleave: one     *)
(* after the other, or overlapping, while the remote source gets records.  *)
NextConc ==
    \/ \E p \in Procs : NotStarted(p) /\ MainStart(p, "db1", FALSE) /\ UNCHANGED runs
    \/ \E p \in Procs : LoadCache(p)
    \/ \E p \in Procs, resp \in {"ok", "error"} : GetTotal(p, resp)
    \/ \E p \in Procs, out \in {"ok", "none", "no_result"} : FetchElement(p, out)
    \/ \E p \in Procs, ok \in BOOLEAN : SaveOpen(p, ok)
    \/ \E p \in Procs : SaveWriteHdr(p)
    \/ \E p \in Procs, ok \in BOOLEAN : SaveWriteBody(p, ok)
    \/ \E p \in Procs : Kill(p)
    \/ remote["db1"] < MaxRemote /\ RemoteChange("db1", remote["db1"] + 1)

SpecConc == Init /\ [][NextConc]_vars

(* The page rendered once over any cache of at most MaxRecords results     *)
(* (without losses, which the order of the table does not depend on).      *)
TableRecords == {r \in RawRecords : r.loss = NaN}

InitTable ==
    /\ file = [d \in DBKeys |-> NoFile]
    /\ remote = [d \in DBKeys |-> 0]
    /\ proc = [p \in Procs |-> IdleProc]
    /\ skipped = [d \in DBKeys |-> {}]
    /\ intr = [d \in DBKeys |-> NoIntr]
    /\ overlap = FALSE
    /\ runs = 0
    /\ \E results \in SeqUpTo(TableRecords, MaxRecords) :
           page = [NoPage EXCEPT !.stage = "loaded", !.results = results]
    /\ call = NoCall

(* sort_by "name" is the name column; "Score" stands for the three numeric *)
(* sort columns (Score, Loss, mean), which take the same branch, line 619. *)
NextTable ==
    \E sort_by \in {"name", "Score"}, sort_ascending \in BOOLEAN, show_only_complete \in BOOLEAN :
        RenderDatabasePage(sort_by, sort_ascending, show_only_complete)

SpecTable == InitTable /\ [][NextTable]_vars

(* The page rendered over caches of complete results with a score and a    *)
(* loss, for the summary.                                                  *)
SummaryRecords ==
    {r \in RawRecords :
        /\ r.complete
        /\ r.name \in {"delta_net", "gated_delta_net", "m1", "m2"}
        /\ <<r.score, r.loss>> \in {<<NaN, NaN>>, <<1, 4377>>, <<1, 4000>>, <<2, 4000>>}}

InitSummary ==
    /\ file = [d \in DBKeys |-> NoFile]
    /\ remote = [d \in DBKeys |-> 0]
    /\ proc = [p \in Procs |-> IdleProc]
    /\ skipped = [d \in DBKeys |-> {}]
    /\ intr = [d \in DBKeys |-> NoIntr]
    /\ overlap = FALSE
    /\ runs = 0
    /\ \E results \in SeqUpTo(SummaryRecords, MaxRecords) :
           page = [NoPage EXCEPT !.stage = "loaded", !.results = results]
    /\ call = NoCall

(* The sidebar is left as it is when the page opens, but for the slider. *)
NextSummary == RenderDatabasePage("Score", FALSE, FALSE)

SpecSummary == InitSummary /\ [][NextSummary]_vars

(* The text functions, each applied to the strings of a bounded set.       *)

MaxLabelLen == 3

MaxCols == 3

LabelChars == {"f", "d", "a", "F", "A", " ", "_"}

(* Labels close to a key of column_mapping without being one. *)
NearLabels ==
    {<<"l", "a", "m", "b", "a", "d", "a", " ", "o", "p", "e", "n", "a", "i">>,
     <<"l", "a", "m", "b", "d", "a", "_", "o", "p", "e", "n", "a", "i">>,
     <<"a", "r", "c", "-", "e", "a", "s", "y">>,
     <<"s", "q", "u", "a", "d", " ", " ", "c", "o", "m", "p", "l", "e", "t", "i", "o", "n">>,
     <<"s", "o", "c", "i", "a", "l", "_", "I", "Q", "A", " ", "x">>,
     <<"i", "t", "'", "s">>}

(* Every key and value of column_mapping, as written, in upper case, in    *)
(* title case and between blanks; the near labels; and every string of at  *)
(* most MaxLabelLen characters of LabelChars.                              *)
Labels ==
    LET known == {e[1] : e \in column_mapping} \cup {e[2] : e \in column_mapping}
                     \cup NearLabels
    IN known \cup {str_upper(t) : t \in known} \cup {str_title(t) : t \in known}
             \cup {<<" ">> \o t \o <<"\t", " ">> : t \in known}
             \cup SeqUpTo(LabelChars, MaxLabelLen)

RECURSIVE Join(_, _)
Join(cells, sep) ==
    IF Len(cells) = 0 THEN <<>>
    ELSE IF Len(cells) = 1 THEN cells[1]
    ELSE cells[1] \o sep \o Join(SubSeq(cells, 2, Len(cells)), sep)

(* The lines of at most n cells of C. *)
LinesOver(C, n) == {Join(c, <<",">>) : c \in SeqUpTo(C, n)}

HeaderCells ==
    {<<"M", "o", "d", "e", "l">>,
     <<>>,
     <<"f", "d", "a">>,
     <<" ", "F", "D", "A", " ">>}

ValueCells ==
    {<<"m">>,
     <<"1">>,
     <<" ", "2", ".", "5">>}

StepCells ==
    {<<"s", "t", "e", "p">>,
     <<"2", "0", "0", "0">>,
     <<"1", "0", "0", "0">>}

LossCells ==
    {<<"l", "o", "s", "s">>,
     <<"4", ".", "5">>,
     <<" ", "3">>}

(* Texts of one line and of two lines of at most MaxCols cells, and texts  *)
(* of two shorter lines with the other line ends.                          *)
TwoLines(H, V) ==
    LinesOver(H, MaxCols)
    \cup {h \o <<"\n">> \o v : h \in LinesOver(H, MaxCols), v \in LinesOver(V, MaxCols)}
    \cup {h \o e \o v : h \in LinesOver(H, MaxCols - 1), v \in LinesOver(V, MaxCols - 1),
                        e \in {<<"\r", "\n">>, <<"\r">>}}

(* With them, texts with blank lines, further lines and other cells. *)
TestTexts ==
    TwoLines(HeaderCells, ValueCells) \cup
    {<<"\n", "\n", "M", "o", "d", "e", "l", ",", "f", "d", "a", "\n", "m", ",", "1", "\n", "\n">>,
     <<"M", "o", "d", "e", "l", ",", "f", "d", "a", "\r", "\n", "m", ",", "1", "\r", "\n", "n", ",", "2">>,
     <<"M", "o", "d", "e", "l", ",", "f", "d", "a", "\n", "\n", "m", ",", "1">>,
     <<"M", "o", "d", "e", "l", ",", "f", "d", "a", ",", "x", " ", "y", "\n", "m", ",", "-", ".", "5", ",">>,
     <<"M", "o", "d", "e", "l", ",", "M", "O", "D", "E", "L", ",", "b", "o", "o", "l", "q", "\n", "m", ",", "1", ",", "2", ".">>,
     <<"\r", "\n", " ", "\r", "\n">>}

TrainTexts ==
    TwoLines(StepCells, LossCells) \cup
    {<<"\n", "\n", "s", "t", "e", "p", ",", "2", "0", "0", "0", "\n", "l", "o", "s", "s", ",", "4", ".", "5", "\n", "\n">>,
     <<"s", "t", "e", "p", ",", "2", "0", "0", "0", "\r", "\n", "l", "o", "s", "s", ",", "4", ".", "5", "\r", "\n", "l", "r", ",", "1">>,
     <<"s", "t", "e", "p", ",", "2", "0", "0", "0", "\n", "\n", "l", "o", "s", "s", ",", "4", ".", "5">>,
     <<"s", "t", "e", "p", ",", "2", "0", "0", "0", ".", "0", ",", "2", "0", "0", "0", "\n", "l", "o", "s", "s", ",", "1", ",", "2">>,
     <<"s", "t", "e", "p", ",", "+", "2", "0", "0", "0", " ", ",", "2", "0", "0", "0", "\n", "l", "o", "s", "s", ",", "x", ",", "2">>,
     <<"s", "t", "e", "p", ",", "-", "2", "0", "0", "0", ",", "0", "2", "0", "0", "0", "\n", "l", "o", "s", "s", ",", "1", ",", "-", "2", ".", "2", "5">>,
     <<"\r", "\n", " ", "\r", "\n">>}

Inputs(fn) ==
    CASE fn = "normalize_column_name" -> Labels
      [] fn = "parse_test_results" -> TestTexts
      [] fn = "get_loss_at_step_2000" -> TrainTexts

InitParse ==
    /\ file = [d \in DBKeys |-> NoFile]
    /\ remote = [d \in DBKeys |-> 0]
    /\ proc = [p \in Procs |-> IdleProc]
    /\ skipped = [d \in DBKeys |-> {}]
    /\ intr = [d \in DBKeys |-> NoIntr]
    /\ overlap = FALSE
    /\ runs = 0
    /\ page = NoPage
    /\ \E fn \in {"normalize_column_name", "parse_test_results", "get_loss_at_step_2000"} :
           \E arg \in Inputs(fn) :
               call = [NoCall EXCEPT !.fn = fn, !.first = arg, !.arg = arg]

NextParse ==
    \/ NormalizeColumnName
    \/ ParseTestResults
    \/ GetLossAtStep2000

SpecParse == InitParse /\ [][NextParse]_vars



----------------------------------------------------------------------------
(* Properties of the synchroniser, one updater at a time (Spec).           *)

(* The indices first..last in ascending order. *)
Interval(first, last) == [k \in 1..(IF last >= first THEN last - first + 1 ELSE 0) |-> first + k - 1]

(* The members of s that are not in the set out, in the order of s. *)
Without(s, out) ==
    LET Keep(x) == x \notin out IN SelectSeq(s, Keep)

Mark(f) == f.cache.total_records_at_last_run

SweepDone(f) == f.pc \in {"open", "write_hdr", "write_body"} \/ f.msg = "saved" \/ f.io_error

(* C1 as stated: after every sync run that saves the snapshot, the         *)
(* persisted total_records_at_last_run equals the number of persisted      *)
(* records.                                                                *)
C1_MarkEqualsCount ==
    \A p \in Procs :
        proc[p].msg = "saved" => file[proc[p].db].hdr = Len(file[proc[p].db].body)

(* C1 amended: after every sync run that saves the snapshot, the persisted *)
(* mark is the remote total of that run, and it equals the number of       *)
(* persisted records plus the number of indices in 1..mark that are absent *)
(* from the list (the skipped ones).                                       *)
C1_MarkCountsSkipped ==
    \A p \in Procs :
        proc[p].msg = "saved" =>
            LET f == file[proc[p].db] IN
            /\ Readable(f)
            /\ f.hdr = proc[p].current_total
            /\ Range(f.body) \subseteq 1..f.hdr
            /\ f.hdr = Len(f.body) + Cardinality((1..f.hdr) \ Range(f.body))

C1_Witness ==
    \E p \in Procs :
        /\ proc[p].msg = "saved"
        /\ proc[p].skip # {}
        /\ Len(file[proc[p].db].body) > 0
        /\ Len(file[proc[p].db].body) < file[proc[p].db].hdr

(* C2: when the count call fails or returns 0, the run reports the source  *)
(* unreachable (returns False), fetches no index, writes nothing and       *)
(* leaves the cache file as it was.                                        *)
C2_SourceUnreachable ==
    \A p \in Procs :
        LET f == proc[p] IN
        (f.ret # "none" /\ f.current_total = 0) =>
            /\ f.msg = "unreachable"
            /\ f.ret = "False"
            /\ f.fetched = <<>>
            /\ ~f.wrote
            /\ file[f.db] = f.pre

C2_Witness ==
    \E p \in Procs :
        /\ proc[p].msg = "unreachable"
        /\ Readable(file[proc[p].db])
        /\ file[proc[p].db].hdr > 0
        /\ remote[proc[p].db] > file[proc[p].db].hdr

(* C3 as stated: whenever the remote count is at most the persisted mark,  *)
(* the run reports no new data, fetches nothing and leaves the file alone. *)
C3_NoNewDataWheneverNotAbove ==
    \A p \in Procs :
        LET f == proc[p] IN
        (f.ret # "none" /\ f.current_total <= Mark(f)) =>
            /\ f.msg = "no_new_data"
            /\ f.ret = "True"
            /\ f.fetched = <<>>
            /\ ~f.wrote
            /\ file[f.db] = f.pre

(* C3 amended: whenever the remote count is at least 1 and at most the     *)
(* persisted mark, the run reports no new data (returns True), fetches     *)
(* nothing and leaves the file alone; a count of 0 is reported as the      *)
(* source being unreachable.                                               *)
C3_NoNewDataIdempotent ==
    \A p \in Procs :
        LET f == proc[p] IN
        (f.ret # "none" /\ f.current_total >= 1 /\ f.current_total <= Mark(f)) =>
            /\ f.msg = "no_new_data"
            /\ f.ret = "True"
            /\ f.fetched = <<>>
            /\ ~f.wrote
            /\ file[f.db] = f.pre

(* A run that finds the count its predecessor saved. *)
C3_Witness ==
    \E p \in Procs :
        LET f == proc[p] IN
        /\ f.msg = "no_new_data"
        /\ Readable(file[f.db])
        /\ f.current_total = file[f.db].hdr
        /\ Len(file[f.db].body) > 0

(* C4: when the remote count N exceeds the loaded mark M, the sweep calls  *)
(* fetch_element for M+1..N in ascending order, skipping unusable          *)
(* responses without stopping, and the saved snapshot has mark N and the   *)
(* previous records followed by the usable ones in index order.            *)
C4_SweepAndSave ==
    \A p \in Procs :
        LET f == proc[p] IN
        /\ f.pc = "fetch" => f.fetched = Interval(Mark(f) + 1, f.i - 1)
        /\ SweepDone(f) =>
            /\ f.fetched = Interval(Mark(f) + 1, f.current_total)
            /\ f.results = f.cache.results \o Without(f.fetched, f.skip)
        /\ f.msg = "saved" =>
            /\ Readable(file[f.db])
            /\ file[f.db].hdr = f.current_total
            /\ file[f.db].body = f.cache.results \o Without(f.fetched, f.skip)

(* A saved sweep over a non-empty list that skipped an index and went on   *)
(* to a usable one.                                                        *)
C4_Witness ==
    \E p \in Procs :
        LET f == proc[p] IN
        /\ f.msg = "saved"
        /\ f.cache.results # <<>>
        /\ \E a \in f.skip : \E b \in Range(f.results) : a < b /\ a > Mark(f)

(* C5: a sweep interrupted after index k was fetched and before the save   *)
(* commits nothing, and the next run on the same remote total starts at    *)
(* the persisted mark + 1 and covers every index up to the total.          *)
C5_InterruptedSweepResumes ==
    /\ \A d \in DBKeys : intr[d].k > 0 => file[d] = intr[d].pre
    /\ \A p \in Procs :
        LET f == proc[p]
            M == load_cache(f.pre_intr.pre).total_records_at_last_run
        IN f.pre_intr.k > 0 =>
            /\ f.fetched # <<>> => f.fetched[1] = M + 1
            /\ (SweepDone(f) /\ f.current_total = f.pre_intr.n) =>
                /\ Range(f.fetched) = (M + 1)..f.current_total
                /\ (M + 1)..f.pre_intr.k \subseteq Range(f.fetched)

C5_Witness ==
    \E p \in Procs :
        LET f == proc[p]
            M == load_cache(f.pre_intr.pre).total_records_at_last_run
        IN /\ f.pre_intr.k > M + 1
           /\ M > 0
           /\ SweepDone(f)
           /\ f.current_total = f.pre_intr.n
           /\ f.msg = "saved"

(* C6: a save that fails or is stopped part-way leaves the previous        *)
(* snapshot to the next load.                                              *)
C6_SaveAtomic ==
    \A p \in Procs :
        LET f == proc[p] IN
        (f.pc = "idle" /\ f.exit \in {"killed", "crashed"} /\ f.wrote) =>
            load_cache(file[f.db]) = load_cache(f.pre)

(* C9: an index skipped by a saved sweep is not passed to fetch_element by *)
(* a later run, unless the cache was reset (--force).                      *)
C9_SkippedNeverRefetched ==
    \A p \in Procs :
        Range(proc[p].fetched) \cap proc[p].pre_skipped = {}

(* C7: a write error during save is absorbed: the run reports failure      *)
(* (returns False), the process does not end on the exception, and the     *)
(* databases still to be updated are processed.                            *)
C7_PersistFailureAbsorbed ==
    \A p \in Procs :
        LET f == proc[p] IN
        f.io_error =>
            /\ f.ret = "False"
            /\ f.exit # "crashed"
            /\ (f.pc = "idle" => f.todo = <<>>)

(* No index has been skipped by a sweep on database d, saved or under way. *)
NoSkip(d) ==
    /\ skipped[d] = {}
    /\ \A p \in Procs : proc[p].db = d => proc[p].skip = {}

(* C8, one run at a time: without overlapping runs and without a skipped   *)
(* record, a readable snapshot has total_records_at_last_run equal to the  *)
(* number of its records.                                                  *)
C8_SingleWriterKeepsInvariant ==
    \A d \in DBKeys :
        (~overlap /\ NoSkip(d) /\ Readable(file[d])) => file[d].hdr = Len(file[d].body)

(* C8, overlapping runs: both runs loaded before either saved, no record   *)
(* was skipped, both ran to their end, and the snapshot they leave is      *)
(* readable with a mark that differs from the number of records.           *)
C8_Witness ==
    /\ overlap
    /\ NoSkip("db1")
    /\ \A p \in Procs : proc[p].pc = "idle" /\ proc[p].exit = "ok" /\ proc[p].msg = "saved"
    /\ \A p \in Procs : proc[p].pre = NoFile
    /\ Readable(file["db1"])
    /\ file["db1"].hdr # Len(file["db1"].body)

(* C16: a snapshot saved by a run extends the snapshot the run loaded,     *)
(* when that one was readable: the mark is not lower, the earlier list of  *)
(* records is a prefix of the later one; and the indices in a saved list   *)
(* are strictly increasing, so no index is there twice.                    *)
C16_SavedSnapshotExtends ==
    \A p \in Procs :
        proc[p].msg = "saved" =>
            LET old == proc[p].pre
                new == file[proc[p].db]
            IN /\ Readable(new)
               /\ \A j, k \in 1..Len(new.body) : j < k => new.body[j] < new.body[k]
               /\ Readable(old) =>
                      /\ new.hdr >= old.hdr
                      /\ Len(new.body) >= Len(old.body)
                      /\ SubSeq(new.body, 1, Len(old.body)) = old.body

(* A run has loaded a readable snapshot with records and saved a longer    *)
(* one with a higher mark.                                                 *)
C16_Witness ==
    \E p \in Procs :
        /\ proc[p].msg = "saved"
        /\ Readable(proc[p].pre)
        /\ proc[p].pre.body # <<>>
        /\ Len(file[proc[p].db].body) > Len(proc[p].pre.body)
        /\ file[proc[p].db].hdr > proc[p].pre.hdr

(* C17: a run of the updater for one database (--db db1 or --db db2),     *)
(* with or without --force, leaves the cache file of the other database as *)
(* it was when the run started.                                            *)
C17_OtherDatabaseUntouched ==
    \A p \in Procs :
        proc[p].db_arg \in DBKeys =>
            \A d \in DBKeys \ {proc[p].db_arg} : file[d] = proc[p].others[d]

----------------------------------------------------------------------------
(* Properties of the leaderboard table (SpecTable).                        *)

(* The cache holds a result that is shown as the baseline row. *)
HasBaseline(results) ==
    \E k \in 1..Len(results) :
        results[k].name # "" /\ Lower(results[k].name) = "delta_net"

(* C10: in every table shown, whatever the sort column, direction and      *)
(* filters, the SOTA row is first, the baseline row (when the cache has    *)
(* one) is second, and every other row comes after them.                   *)
C10_PinnedRowsFirst ==
    page.stage = "rendered" =>
        LET d == page.display_df
            pinned == IF HasBaseline(page.results) THEN 2 ELSE 1
        IN /\ Len(d) >= pinned
           /\ d[1] = gated_delta_net_row
           /\ HasBaseline(page.results) => IsDelta(d[2])
           /\ \A k \in 1..Len(d) :
                  k > pinned => (d[k] # gated_delta_net_row /\ ~IsDelta(d[k]))

(* The names with a pinned row: the SOTA model and the baseline. *)
ReservedNames == {"gated_delta_net", "delta_net"}

(* The positions of the results carrying the reserved name n. *)
RecordsNamed(results, n) ==
    {k \in 1..Len(results) : results[k].name # "" /\ Lower(results[k].name) = n}

(* The least element of a non-empty set of numbers. *)
Least(S) == CHOOSE k \in S : \A j \in S : k <= j

(* C11: the table shown holds at most one row per reserved name (matched   *)
(* without regard to case), and when several results carry the baseline    *)
(* name the row shown for it is the one of the first such result.          *)
C11_OnePinnedRowPerName ==
    page.stage = "rendered" =>
        LET d == page.display_df IN
        /\ \A n \in ReservedNames :
               Cardinality({k \in 1..Len(d) : Lower(d[k].name) = n}) <= 1
        /\ \A k \in 1..Len(d) :
               IsDelta(d[k]) =>
                   d[k].Index = Least(RecordsNamed(page.results, "delta_net"))

----------------------------------------------------------------------------
(* Properties of the text functions (SpecParse).                           *)

(* C12: normalizing a label that is already normalized gives the same      *)
(* label: normalize(normalize(x)) = normalize(x) for every label x.        *)
C12_NormalizeIdempotent ==
    call.fn = "normalize_column_name" /\ call.calls = 2 => call.out.value = call.arg

(* A label that is not its own normal form, by the mapping and by the      *)
(* title-case fallback, has been normalized twice.                         *)
C12_Witness ==
    /\ call.fn = "normalize_column_name"
    /\ call.calls = 2
    /\ call.arg # call.first
    /\ call.first \in {<<" ", "a", "r", "c", "_", "e", "a", "s", "y", "\t", " ">>, <<"l", "a", "m", "b", "a", "d", "a", " ", "o", "p", "e", "n", "a", "i">>}

(* The columns both lines have (the first is column 1). *)
Paired(headers, values) ==
    1..(IF Len(headers) <= Len(values) THEN Len(headers) ELSE Len(values))

(* The paired columns that are kept: not the first, and with a header that *)
(* is neither empty nor 'model' in any case.                               *)
Kept(headers, values) ==
    {i \in Paired(headers, values) \ {1} :
        str_lower(headers[i]) \notin {<<"m", "o", "d", "e", "l">>, <<>>}}

(* A value as a number when it reads as one, as its trimmed text if not. *)
Coerced(value) ==
    LET numeric_value == float(value) IN
    IF numeric_value.raised = "none" THEN Float(numeric_value.value) ELSE Str(value)

(* C13: on a text of at least two lines the benchmark parser returns the   *)
(* map whose labels are the normalized headers of the kept columns (those  *)
(* present in both lines, but for column 0 and the columns whose header is *)
(* empty or 'model'), each with the value at the same position, a number   *)
(* when it coerces and the trimmed text otherwise; when two kept columns   *)
(* normalize to one label, the later column's value is the one stored.     *)
C13_PairsByPosition ==
    (call.fn = "parse_test_results" /\ call.calls = 1) =>
        LET lines == SplitLines(call.arg) IN
        Len(lines) >= 2 =>
            LET headers == Cells(lines[1])
                values == Cells(lines[2])
                kept == Kept(headers, values)
                label == [i \in kept |-> normalize_column_name(headers[i])]
                result == call.out.value
            IN /\ call.out.raised = "none"
               /\ DOMAIN result = {label[i] : i \in kept}
               /\ \A i \in kept :
                      (\A j \in kept : j > i => label[j] # label[i])
                      => result[label[i]] = Coerced(values[i])

(* A text whose second and third headers normalize to one label, with a    *)
(* number and a text as values, has been parsed.                           *)
C13_Witness ==
    /\ call.fn = "parse_test_results"
    /\ call.calls = 1
    /\ LET lines == SplitLines(call.arg) IN
       /\ Len(lines) >= 2
       /\ LET headers == Cells(lines[1])
              values == Cells(lines[2])
          IN /\ {2, 3} \subseteq Kept(headers, values)
             /\ normalize_column_name(headers[2]) = normalize_column_name(headers[3])
             /\ headers[2] # headers[3]
             /\ Coerced(values[2]).kind = "float"
             /\ Coerced(values[3]).kind = "str"
    /\ call.out.value # EmptyMap

Parsers == {"parse_test_results", "get_loss_at_step_2000"}

(* What a parser returns for nothing: the empty map, the absent value. *)
Nothing(fn) == IF fn = "parse_test_results" THEN EmptyMap ELSE None

(* The text is malformed: empty or of one line, or its two lines differ in *)
(* length, or a cell that is read as a number is not one.                  *)
Malformed(fn, lines) ==
    \/ Len(lines) < 2
    \/ LET headers == Cells(lines[1])
           values == Cells(lines[2])
       IN \/ Len(headers) # Len(values)
          \/ /\ fn = "parse_test_results"
             /\ \E i \in Kept(headers, values) : float(values[i]).raised # "none"
          \/ /\ fn = "get_loss_at_step_2000"
             /\ \E i \in Paired(headers, values) \ {1} :
                    \/ int(headers[i]).raised # "none"
                    \/ float(values[i]).raised # "none"

(* C14 as stated: on every malformed text a parser returns, without        *)
(* raising, the empty map or the absent value, never a partly filled one.  *)
C14_MalformedGivesNothing ==
    (call.fn \in Parsers /\ call.calls = 1 /\ Malformed(call.fn, SplitLines(call.arg))) =>
        call.out = Returned(Nothing(call.fn))

(* The columns whose step reads as 2000 and whose loss reads as a number. *)
Hits(steps, losses) ==
    {i \in Paired(steps, losses) \ {1} :
        /\ int(steps[i]).raised = "none"
        /\ int(steps[i]).value = 2000
        /\ float(losses[i]).raised = "none"}

(* C14, amended: a parser never raises; on an empty text or a text of      *)
(* fewer than two lines it returns the empty map or the absent value; on   *)
(* two lines, whatever their lengths and cells, the benchmark parser       *)
(* returns one entry for the label of each kept column present in both     *)
(* lines (a value that is no number is kept as text), and the loss parser  *)
(* returns the loss of the first column whose step reads as 2000 and whose *)
(* loss reads as a number, the absent value when there is none.            *)
C14_ParsersTotal ==
    (call.fn \in Parsers /\ call.calls = 1) =>
        LET lines == SplitLines(call.arg) IN
        /\ call.out.raised = "none"
        /\ Len(lines) < 2 => call.out.value = Nothing(call.fn)
        /\ Len(lines) >= 2 =>
               LET headers == Cells(lines[1])
                   values == Cells(lines[2])
                   kept == Kept(headers, values)
                   hits == Hits(headers, values)
               IN IF call.fn = "parse_test_results"
                  THEN /\ DOMAIN call.out.value =
                              {normalize_column_name(headers[i]) : i \in kept}
                       /\ \A key \in DOMAIN call.out.value :
                              \E i \in kept : call.out.value[key] = Coerced(values[i])
                  ELSE call.out.value =
                           IF hits = {} THEN None
                           ELSE LET first == CHOOSE i \in hits : \A j \in hits : i <= j
                                IN Float(float(values[first]).value)

(* A text whose header line is longer than its value line and which has a *)
(* value that is no number has been parsed, and the map is not empty.      *)
C14_Witness ==
    /\ call.fn = "parse_test_results"
    /\ call.calls = 1
    /\ LET lines == SplitLines(call.arg) IN
       /\ Len(lines) >= 2
       /\ LET headers == Cells(lines[1])
              values == Cells(lines[2])
          IN /\ Len(headers) > Len(values)
             /\ \E i \in Kept(headers, values) : float(values[i]).raised = "ValueError"
    /\ call.out.value # EmptyMap

----------------------------------------------------------------------------
(* Properties of the summary (SpecSummary).                                *)

(* The place of a row in table order: the SOTA row, the baseline row, then *)
(* the rows of the other results in the order of the cache.                *)
TableRank(row) ==
    IF row = gated_delta_net_row THEN 0 ELSE IF IsDelta(row) THEN 1 ELSE row.Index + 1

(* The rows with the best value of a column: the greatest, for Loss the    *)
(* least.                                                                  *)
BestRows(df, col) ==
    {k \in Valid(df, col) :
        \A j \in Valid(df, col) :
            IF col = "Loss" THEN df[k][col] <= df[j][col] ELSE df[k][col] >= df[j][col]}

(* C15: the summary has one entry for each metric column with a number and *)
(* none for a column without; the entry gives the greatest value of the    *)
(* column, the least for Loss, and names the row that has it; of several   *)
(* such rows it names the first in table order (SOTA row, baseline row,    *)
(* then the other rows in the order of the cache).                         *)
C15_SummaryNamesFirstBest ==
    page.stage = "rendered" =>
        LET df == page.df
            summary == page.summary
        IN \A n \in 1..Len(all_columns) :
               LET col == all_columns[n]
                   entries == {e \in 1..Len(summary) : summary[e].col = col}
               IN IF Valid(df, col) = {} THEN entries = {}
                  ELSE /\ Cardinality(entries) = 1
                       /\ \A e \in entries :
                              \E k \in BestRows(df, col) :
                                  /\ \A j \in BestRows(df, col) :
                                         TableRank(df[k]) <= TableRank(df[j])
                                  /\ summary[e].best_value = df[k][col]
                                  /\ summary[e].best_model = df[k].name

(* The baseline, later in the cache, shares the best score with an earlier *)
(* result, and a result has a lower loss than the SOTA row.                *)
C15_Witness ==
    /\ page.stage = "rendered"
    /\ Len(page.summary) = 2
    /\ \E j, k \in BestRows(page.df, "Score") :
           /\ IsDelta(page.df[k])
           /\ IsOther(page.df[j])
           /\ page.df[j].Index < page.df[k].Index
    /\ Cardinality(BestRows(page.df, "Loss")) >= 2
    /\ 1 \notin BestRows(page.df, "Loss")

====
